---- MODULE Spec2Model ----
(***************************************************************************)
(* SmileRise: the frame-sampling and smile-burst pipeline of               *)
(* VideoProcessor.processVideo (src/src/utils/videoProcessor.ts, the       *)
(* version at lines 1-250), driven by App.handleStartProcessing            *)
(* (src/unnamed/part_001) and fed by FaceDetectionService.detectFaces and  *)
(* isSmiling (src/unnamed/part_004).                                       *)
(*                                                                         *)
(* Times are integers in milliseconds (the code holds seconds as doubles;  *)
(* every value it computes is a multiple of 0.25 s or a media duration, so *)
(* the millisecond values are exact).  Confidences are integers in percent.*)
(* An async function is cut at its awaits: the code between two awaits is  *)
(* one step, taken together with the event, timer or promise that resumes  *)
(* it.  Wall-clock time is not measured: a pending timer may fire at any   *)
(* macrotask boundary, since no code bounds how long a sample takes.       *)
(***************************************************************************)
EXTENDS Integers, Sequences, FiniteSets, TLC

\* ---------------------------------------------------------------------------
\* Program constants
\* ---------------------------------------------------------------------------
SMILE_BUFFER_DURATION_MS == 500
SMILE_COOLDOWN_DURATION_MS == 2000
MIN_SMILE_DURATION_MS == 100
PROCESSING_FRAME_STEP_MS == 250

\* isSmiling tuning parameters (happy score in percent)
happyScoreThreshold == 50
minSmileAspectRatio == 2
maxSmileAspectRatio == 6
minMouthHeight == 2

\* ---------------------------------------------------------------------------
\* Bounds of the model
\* ---------------------------------------------------------------------------
\* longest unscripted video, in samples of PROCESSING_FRAME_STEP_MS
MaxSamples == 6
\* most faces the detector reports for one frame
MaxFaces == 2
\* longest video of the overlapping-calls specification, in samples
MaxOverlapSamples == 4

\* ---------------------------------------------------------------------------
\* Values
\* ---------------------------------------------------------------------------
\* HTMLMediaElement.duration before the metadata is loaded
NaN == -1

\* the two calls of the run entry point the model follows
Runs == {"first", "second"}

NullFrame ==
    [timestamp |-> -1, confidence |-> -1,
     detection |-> [happy |-> -1, mouthWidth |-> -1, mouthHeight |-> -1],
     dataUrl |-> "undefined"]

NullBurst ==
    [bestFrame |-> NullFrame, maxConfidence |-> -1,
     startTime |-> -1, lastDetectionTime |-> -1]

\* a face as face-api reports it: the happy expression score and the mouth
\* landmarks reduced to the two distances isSmiling measures
HappyScores == {40, 60, 90}

SmileFace(h) == [happy |-> h, mouthWidth |-> 12, mouthHeight |-> 4]

ClosedMouthFace(h) == [happy |-> h, mouthWidth |-> 12, mouthHeight |-> 1]

Faces == {SmileFace(h) : h \in HappyScores} \cup {ClosedMouthFace(h) : h \in HappyScores}

\* every list of at most n faces
RECURSIVE FaceLists(_)
FaceLists(n) ==
    IF n = 0 THEN {<<>>}
    ELSE LET shorter == FaceLists(n - 1)
         IN  shorter \cup {Append(l, f) : l \in {s \in shorter : Len(s) = n - 1}, f \in Faces}

SampleTimes(duration) ==
    {t \in 0..duration : t < duration /\ t % PROCESSING_FRAME_STEP_MS = 0}

\* ---------------------------------------------------------------------------
\* Input files: a duration and what the detector may report at each sample
\* instant.  smiles is a set of pairs <<instant, happy score>>.
\* ---------------------------------------------------------------------------
\* a video of which nothing is fixed but its length
AnyFile(samples) ==
    [name |-> "any", duration |-> samples * PROCESSING_FRAME_STEP_MS, smiles |-> {}]

\* one smiling face with the given happy score at each instant of smiles, no
\* smiling face at any other instant
ScriptedFile(name, d, smiles) == [name |-> name, duration |-> d, smiles |-> smiles]

NoFacesFile == ScriptedFile("noFaces", 2000, {})

TwoFarFile == ScriptedFile("twoFar", 10000, {<<1000, 60>>, <<8000, 90>>})

\* smiles at two sample instants g steps apart: early in the video, or the
\* later one at its last or last but one sample
TwoNearStarts(g) ==
    {500, 3000 - (g + 1) * PROCESSING_FRAME_STEP_MS, 3000 - (g + 2) * PROCESSING_FRAME_STEP_MS}

TwoNearFiles ==
    UNION {{ScriptedFile("twoNear", 3000,
                {<<t, c[1]>>, <<t + g * PROCESSING_FRAME_STEP_MS, c[2]>>}) :
              t \in TwoNearStarts(g), c \in {<<60, 90>>, <<90, 60>>, <<60, 60>>}} :
           g \in 1..7}

FourSmilesFile ==
    ScriptedFile("fourSmiles", 4000, {<<0, 60>>, <<1000, 90>>, <<2000, 60>>, <<3000, 90>>})

\* one smiling face at every sample instant
SmilingThroughoutFile(samples) ==
    LET d == samples * PROCESSING_FRAME_STEP_MS
    IN  ScriptedFile("smilingThroughout", d,
                     {<<t, IF t = 0 THEN 60 ELSE 90>> : t \in SampleTimes(d)})

\* videos whose duration is not a whole number of sampling steps
UnevenFiles == {ScriptedFile("uneven", d, {}) : d \in {100, 300, 600}}

Files ==
    {AnyFile(n) : n \in 0..MaxSamples} \cup UnevenFiles
        \cup {NoFacesFile, TwoFarFile, FourSmilesFile} \cup TwoNearFiles
        \cup {SmilingThroughoutFile(MaxOverlapSamples)}

\* the face lists face-api may report for the frame of file f at instant t
FacesAt(f, t) ==
    IF f.name = "any" THEN FaceLists(MaxFaces)
    ELSE IF f.name = "noFaces" THEN {<<>>}
    ELSE IF \E s \in f.smiles : s[1] = t
    THEN {<<SmileFace(s[2])>> : s \in {x \in f.smiles : x[1] = t}}
    ELSE {<<>>, <<SmileFace(40)>>, <<ClosedMouthFace(90)>>}

OptionSets ==
    {[extractAll |-> FALSE, maxExtract |-> 1],
     [extractAll |-> FALSE, maxExtract |-> 2],
     [extractAll |-> TRUE, maxExtract |-> 1]}

\* ---------------------------------------------------------------------------
\* Values of the hybrid detector (faceDetection.ts).  Scores and ratios are in
\* hundredths; a combined confidence is in ten-thousandths, so that the
\* weights 0.4 and 0.6 stay exact.  NaN (0 / 0) fails every comparison, as -1
\* does against the non-negative thresholds of the code.
\* ---------------------------------------------------------------------------
\* x / 0 for x > 0
Infinity == 1000000

\* the callers of initialize(): App's start-up effect and the lazy call in
\* detectSmileInFrame
Callers == {"app", "lazy"}

NoFeatures ==
    [mouthWidthRatio |-> 0, mouthCurvature |-> 0, avgEyeCrinkle |-> 0,
     mouthOpennessRatio |-> 0, symmetryScore |-> 0]

NoLandmarks ==
    [mouthWidth |-> 0, interEyeDistance |-> 0, mouthHeight |-> 0, cornerLift |-> 0,
     eyeToBrow |-> 0, eyeWidth |-> 0, leftDistance |-> 0, rightDistance |-> 0]

\* how a function application ended: by a return value or by a throw
NoOutcome ==
    [throws |-> "none", confidence |-> 0, isGenuine |-> FALSE, features |-> NoFeatures,
     hasSmile |-> FALSE, faceCount |-> 0, genuineSmileCount |-> 0, analyzed |-> <<>>]

\* the function application last made on the service
NoCall ==
    [fn |-> "none", happyScore |-> 0, features |-> NoFeatures, landmarks |-> NoLandmarks,
     faces |-> <<>>, outcome |-> NoOutcome]

\* what saveFrame exported last: the timestamp of the frame asked for and the
\* position of the frame the element presented when it was drawn
NullSave == [timestamp |-> NaN, drawn |-> NaN]

NewHybrid ==
    [initialized |-> FALSE, detectionMethod |-> "fallback", modelsLoaded |-> FALSE,
     init |-> [c \in Callers |-> "idle"], loadsStarted |-> 0, call |-> NoCall]

\* ---------------------------------------------------------------------------
\* State
\* ---------------------------------------------------------------------------
VARIABLES
    vp,                     \* per call: the VideoProcessor built for it and processVideo's locals
    video,                  \* the shared <video> element
    stats,                  \* App's processingStats
    app,                    \* App's error and extractedFrames
    faceDetectionService,   \* the shared detector
    file,                   \* App's selectedFile
    options,                \* App's processingOptions
    hybrid                  \* the hybrid FaceDetectionService of faceDetection.ts

vars == <<vp, video, stats, app, faceDetectionService, file, options, hybrid>>

NewProcessor ==
    [pc |-> "idle",
     stopProcessingFlag |-> FALSE,
     currentSmileBurst |-> NullBurst,
     smileCooldownActive |-> FALSE,
     cooldownTimeoutId |-> "null",
     estimatedTotalFrames |-> 0,
     processedFrames |-> 0,
     smilingFacesCount |-> 0,
     extractedFrames |-> <<>>,
     currentTime |-> 0,
     seekSettledBy |-> "none",
     detections |-> <<>>,
     objectUrl |-> "none",
     result |-> <<>>,
     error |-> "none"]

Init ==
    /\ vp = [r \in Runs |-> NewProcessor]
    /\ video = [src |-> "none", currentTime |-> 0, duration |-> NaN, listeners |-> <<>>,
                seeking |-> FALSE]
    /\ stats = [totalFrames |-> 0, processedFrames |-> 0, smilingFaces |-> 0, isProcessing |-> FALSE]
    /\ app = [error |-> "none", extractedFrames |-> <<>>, saved |-> NullSave]
    /\ faceDetectionService \in {[isInitialized |-> b] : b \in BOOLEAN}
    /\ file \in Files
    /\ options \in OptionSets
    /\ hybrid = NewHybrid

\* the mutable program state as one value, so that the synchronous stretches
\* of code are functions from state to state
Cur == [vp |-> vp, video |-> video, stats |-> stats, app |-> app]

Commit(M) ==
    /\ vp' = M.vp
    /\ video' = M.video
    /\ stats' = M.stats
    /\ app' = M.app
    /\ UNCHANGED <<faceDetectionService, file, options, hybrid>>

\* ---------------------------------------------------------------------------
\* FaceDetectionService (part_004)
\* ---------------------------------------------------------------------------
\* isSmiling: the expression score check, then the mouth aspect-ratio check
isSmiling(face) ==
    LET happyScore == face.happy
        mouthWidth == face.mouthWidth
        mouthHeight == face.mouthHeight
    IN  IF happyScore < happyScoreThreshold THEN FALSE
        ELSE IF mouthWidth <= 0 \/ mouthHeight < minMouthHeight THEN FALSE
        ELSE /\ mouthWidth > minSmileAspectRatio * mouthHeight
             /\ mouthWidth < maxSmileAspectRatio * mouthHeight

\* detectFaces: nothing when the models are not loaded, else the smiling
\* faces among the detections, in detection order
detectFaces(service, detections) ==
    IF ~service.isInitialized THEN <<>>
    ELSE SelectSeq(detections, isSmiling)

\* ---------------------------------------------------------------------------
\* The <video> element's listeners
\* ---------------------------------------------------------------------------
Listener(type, r, wait) == [type |-> type, run |-> r, wait |-> wait]

AddListeners(M, r, wait, first, second) ==
    [M EXCEPT !.video.listeners =
        @ \o <<Listener(first, r, wait), Listener(second, r, wait)>>]

\* callbacks that leave their listeners on the element
RemoveListeners_LeavesThem(M, r, wait) == M

RemoveListeners(M, r, wait) ==
    [M EXCEPT !.video.listeners =
        SelectSeq(@, LAMBDA l : ~(l.run = r /\ l.wait = wait))]

HasListener(v, type) ==
    \E i \in 1..Len(v.listeners) : v.listeners[i].type = type

IsRegistered(M, l) ==
    \E i \in 1..Len(M.video.listeners) : M.video.listeners[i] = l

\* ---------------------------------------------------------------------------
\* App.handleStartProcessing around the processVideo call (part_001)
\* ---------------------------------------------------------------------------
\* lines 85 and 88-90: the call resolved
Resolved(M, r, frames) ==
    [M EXCEPT !.vp[r].pc = "resolved",
              !.vp[r].result = frames,
              !.app.extractedFrames = frames,
              !.stats.isProcessing = FALSE]

\* a rejection that still hands the frames extracted so far to the caller
Rejected_DeliversFrames(M, r, message) ==
    [M EXCEPT !.vp[r].pc = "rejected",
              !.vp[r].error = message,
              !.app.error = message,
              !.app.extractedFrames = M.vp[r].extractedFrames,
              !.stats.isProcessing = FALSE]

\* the catch without the finally: the stats left as the run had them
Rejected_NoFinally(M, r, message) ==
    [M EXCEPT !.vp[r].pc = "rejected",
              !.vp[r].error = message,
              !.app.error = message]

\* lines 86-90: the call rejected
Rejected(M, r, message) ==
    [M EXCEPT !.vp[r].pc = "rejected",
              !.vp[r].error = message,
              !.app.error = message,
              !.stats.isProcessing = FALSE]

\* ---------------------------------------------------------------------------
\* VideoProcessor.processVideo (videoProcessor.ts lines 44-249)
\* ---------------------------------------------------------------------------
\* the frames returned in extraction order (the sort left out)
SortByConfidenceDesc_Unsorted(frames) == frames

\* a sort that is not stable: a frame goes before the frames it ties with
RECURSIVE InsertByConfidence_BeforeEquals(_, _)
InsertByConfidence_BeforeEquals(sorted, frame) ==
    IF sorted = <<>> THEN <<frame>>
    ELSE IF frame.confidence >= Head(sorted).confidence THEN <<frame>> \o sorted
    ELSE <<Head(sorted)>> \o InsertByConfidence_BeforeEquals(Tail(sorted), frame)

\* extractedFrames.sort((a, b) => b.confidence - a.confidence): a stable sort,
\* written as the insertion of each frame after the frames it does not beat
RECURSIVE InsertByConfidence(_, _)
InsertByConfidence(sorted, frame) ==
    IF sorted = <<>> THEN <<frame>>
    ELSE IF frame.confidence > Head(sorted).confidence THEN <<frame>> \o sorted
    ELSE <<Head(sorted)>> \o InsertByConfidence(Tail(sorted), frame)

RECURSIVE SortByConfidenceDesc(_)
SortByConfidenceDesc(frames) ==
    IF frames = <<>> THEN <<>>
    ELSE InsertByConfidence(SortByConfidenceDesc(SubSeq(frames, 1, Len(frames) - 1)),
                            frames[Len(frames)])

\* every open burst kept when the loop ends
KeepsPendingBurst_Always(p, videoTimeMs) == p.currentSmileBurst # NullBurst

\* the pending-burst test without its null checks
KeepsPendingBurst_NoNullCheck(p, videoTimeMs) ==
    /\ videoTimeMs - p.currentSmileBurst.lastDetectionTime <= SMILE_BUFFER_DURATION_MS
    /\ videoTimeMs - p.currentSmileBurst.startTime >= MIN_SMILE_DURATION_MS
    /\ ~p.smileCooldownActive

\* lines 232-241: the burst still open when the loop ends is kept if ...
KeepsPendingBurst(p, videoTimeMs) ==
    /\ p.currentSmileBurst # NullBurst
    /\ p.currentSmileBurst.bestFrame # NullFrame
    /\ videoTimeMs - p.currentSmileBurst.lastDetectionTime <= SMILE_BUFFER_DURATION_MS
    /\ videoTimeMs - p.currentSmileBurst.startTime >= MIN_SMILE_DURATION_MS
    /\ ~p.smileCooldownActive

\* the post-loop finalization pushing its frame without reporting it
Finish_CountNotReported(M, r) ==
    LET p == M.vp[r]
        keep == KeepsPendingBurst(p, M.video.currentTime)
        frames == IF keep THEN Append(p.extractedFrames, p.currentSmileBurst.bestFrame)
                  ELSE p.extractedFrames
        M1 == [M EXCEPT !.vp[r].extractedFrames = frames,
                        !.stats.isProcessing = FALSE]
    IN  Resolved(M1, r, SortByConfidenceDesc(frames))

\* lines 232-248 and the caller's continuation: after the loop
Finish(M, r) ==
    LET p == M.vp[r]
        keep == KeepsPendingBurst(p, M.video.currentTime)
        frames == IF keep THEN Append(p.extractedFrames, p.currentSmileBurst.bestFrame)
                  ELSE p.extractedFrames
        count == IF keep THEN p.smilingFacesCount + 1 ELSE p.smilingFacesCount
        M1 == [M EXCEPT !.vp[r].extractedFrames = frames,
                        !.vp[r].smilingFacesCount = count,
                        !.stats.smilingFaces = IF keep THEN count ELSE @,
                        !.stats.isProcessing = FALSE]
    IN  Resolved(M1, r, SortByConfidenceDesc(frames))

\* a comparison with NaN is false
LessThanDuration(t, duration) == duration # NaN /\ t < duration

\* lines 110-138: the loop test, the seek request and the start of its wait
LoopHead(M, r) ==
    LET p == M.vp[r]
        M0 == [M EXCEPT !.vp[r].detections = <<>>]   \* a local of the loop body
    IN  IF LessThanDuration(p.currentTime, M.video.duration) /\ ~p.stopProcessingFlag
        THEN AddListeners(
                 [M0 EXCEPT !.video.currentTime = p.currentTime,
                            !.video.seeking = TRUE,
                            !.vp[r].pc = "awaitSeek",
                            !.vp[r].seekSettledBy = "pending"],
                 r, "seek", "seeked", "error")
        ELSE Finish(M0, r)

\* a timed-out seek wait skips its sample: not counted, not detected
AfterSeekWait_SkipsTimedOut(M, r, settledBy) ==
    LET M1 == [M EXCEPT !.vp[r].seekSettledBy = settledBy]
    IN  IF M1.vp[r].stopProcessingFlag THEN Finish(M1, r)
        ELSE IF settledBy = "timeout"
        THEN [M1 EXCEPT !.vp[r].currentTime = @ + PROCESSING_FRAME_STEP_MS,
                        !.vp[r].pc = "awaitFrame"]
        ELSE [M1 EXCEPT !.vp[r].processedFrames = @ + 1,
                        !.stats.processedFrames = M1.vp[r].processedFrames + 1,
                        !.vp[r].pc = "awaitDetect"]

\* the sample counted twice after its seek wait
AfterSeekWait_CountsTwice(M, r, settledBy) ==
    LET M1 == [M EXCEPT !.vp[r].seekSettledBy = settledBy]
    IN  IF M1.vp[r].stopProcessingFlag THEN Finish(M1, r)
        ELSE [M1 EXCEPT !.vp[r].processedFrames = @ + 2,
                        !.stats.processedFrames = M1.vp[r].processedFrames + 2,
                        !.vp[r].pc = "awaitDetect"]

\* lines 84-109: after the metadata wait
AfterMetadata(M, r) ==
    LET total == M.video.duration \div PROCESSING_FRAME_STEP_MS
        M1 == [M EXCEPT !.vp[r].estimatedTotalFrames = total,
                        !.vp[r].processedFrames = 0,
                        !.vp[r].smilingFacesCount = 0,
                        !.vp[r].extractedFrames = <<>>,
                        !.vp[r].currentSmileBurst = NullBurst,
                        !.vp[r].smileCooldownActive = FALSE,
                        !.vp[r].cooldownTimeoutId = "null",
                        !.vp[r].currentTime = 0,
                        !.stats = [totalFrames |-> total, processedFrames |-> 0,
                                   smilingFaces |-> 0, isProcessing |-> TRUE]]
    IN  LoopHead(M1, r)

\* lines 140-147: after the seek wait, up to the detection call
AfterSeekWait(M, r, settledBy) ==
    LET M1 == [M EXCEPT !.vp[r].seekSettledBy = settledBy]
    IN  IF M1.vp[r].stopProcessingFlag THEN Finish(M1, r)
        ELSE [M1 EXCEPT !.vp[r].processedFrames = @ + 1,
                        !.stats.processedFrames = M1.vp[r].processedFrames + 1,
                        !.vp[r].pc = "awaitDetect"]

\* lines 166-173 and 181-188: the frame object built for a detection: its box,
\* expressions and landmarks (detection), the video time and the confidence.
\* No image is drawn or encoded and the object has no dataUrl property, so
\* reading it gives undefined
NewFrame(face, videoTimeMs, currentFrameConfidence) ==
    [timestamp |-> videoTimeMs, confidence |-> currentFrameConfidence,
     detection |-> face, dataUrl |-> "undefined"]

\* the burst keeps the frame it started with, whatever comes later
UpdateBurst_KeepsFirstFrame(burst, face, videoTimeMs) ==
    LET currentFrameConfidence == face.happy
        frame == NewFrame(face, videoTimeMs, currentFrameConfidence)
    IN  IF burst = NullBurst
        THEN [bestFrame |-> frame, maxConfidence |-> currentFrameConfidence,
              startTime |-> videoTimeMs, lastDetectionTime |-> videoTimeMs]
        ELSE [burst EXCEPT !.lastDetectionTime = videoTimeMs]

\* lines 165-194: the first smiling face outside a cooldown starts the burst
\* or continues it
UpdateBurst(burst, face, videoTimeMs) ==
    LET currentFrameConfidence == face.happy
        frame == NewFrame(face, videoTimeMs, currentFrameConfidence)
    IN  IF burst = NullBurst
        THEN [bestFrame |-> frame, maxConfidence |-> currentFrameConfidence,
              startTime |-> videoTimeMs, lastDetectionTime |-> videoTimeMs]
        ELSE IF currentFrameConfidence > burst.maxConfidence
        THEN [burst EXCEPT !.bestFrame = frame,
                           !.maxConfidence = currentFrameConfidence,
                           !.lastDetectionTime = videoTimeMs]
        ELSE [burst EXCEPT !.lastDetectionTime = videoTimeMs]

\* the loop without its cooldown test
RECURSIVE ScanDetections_NoCooldown(_, _, _, _, _)
ScanDetections_NoCooldown(detections, burst, cooldownActive, videoTimeMs, smileDetectedInFrame) ==
    IF detections = <<>>
    THEN [burst |-> burst, smileDetectedInFrame |-> smileDetectedInFrame]
    ELSE IF ~isSmiling(Head(detections))
    THEN ScanDetections_NoCooldown(Tail(detections), burst, cooldownActive, videoTimeMs,
                                   smileDetectedInFrame)
    ELSE [burst |-> UpdateBurst(burst, Head(detections), videoTimeMs),
          smileDetectedInFrame |-> TRUE]

\* the loop without its break: every smiling face of the frame is considered
RECURSIVE ScanDetections_EveryFace(_, _, _, _, _)
ScanDetections_EveryFace(detections, burst, cooldownActive, videoTimeMs, smileDetectedInFrame) ==
    IF detections = <<>>
    THEN [burst |-> burst, smileDetectedInFrame |-> smileDetectedInFrame]
    ELSE IF ~isSmiling(Head(detections))
    THEN ScanDetections_EveryFace(Tail(detections), burst, cooldownActive, videoTimeMs,
                                  smileDetectedInFrame)
    ELSE IF cooldownActive
    THEN ScanDetections_EveryFace(Tail(detections), burst, cooldownActive, videoTimeMs, TRUE)
    ELSE ScanDetections_EveryFace(Tail(detections),
                                  UpdateBurst(burst, Head(detections), videoTimeMs),
                                  cooldownActive, videoTimeMs, TRUE)

\* lines 154-197: the loop over the detections of one frame; a smiling face
\* during the cooldown is skipped (continue), the first one outside it ends
\* the loop (break)
RECURSIVE ScanDetections(_, _, _, _, _)
ScanDetections(detections, burst, cooldownActive, videoTimeMs, smileDetectedInFrame) ==
    IF detections = <<>>
    THEN [burst |-> burst, smileDetectedInFrame |-> smileDetectedInFrame]
    ELSE IF ~isSmiling(Head(detections))
    THEN ScanDetections(Tail(detections), burst, cooldownActive, videoTimeMs,
                        smileDetectedInFrame)
    ELSE IF cooldownActive
    THEN ScanDetections(Tail(detections), burst, cooldownActive, videoTimeMs, TRUE)
    ELSE [burst |-> UpdateBurst(burst, Head(detections), videoTimeMs),
          smileDetectedInFrame |-> TRUE]

\* a burst that ends only once the smile has been gone for longer than the
\* buffer
BurstEnds_OnlyWhenSmileGone(burst, videoTimeMs, smileDetectedInFrame) ==
    /\ ~smileDetectedInFrame
    /\ videoTimeMs - burst.lastDetectionTime > SMILE_BUFFER_DURATION_MS

\* lines 201-208: the burst ends when the smile has been gone for longer than
\* the buffer, or is still there after longer than the buffer
BurstEnds(burst, videoTimeMs, smileDetectedInFrame) ==
    LET burstDuration == videoTimeMs - burst.startTime
        timeSinceLastDetection == videoTimeMs - burst.lastDetectionTime
    IN  \/ ~smileDetectedInFrame /\ timeSinceLastDetection > SMILE_BUFFER_DURATION_MS
        \/ smileDetectedInFrame /\ burstDuration > SMILE_BUFFER_DURATION_MS

\* line 209: the ended burst is extracted when it lasted long enough
BurstLongEnough(burst, videoTimeMs) ==
    /\ videoTimeMs - burst.startTime >= MIN_SMILE_DURATION_MS
    /\ burst.bestFrame # NullFrame

\* lines 148-229: after the detection call, up to the frame yield
AfterDetection(M, r, detections) ==
    LET p == M.vp[r]
        currentTimestampMs == M.video.currentTime
        scan == ScanDetections(detections, p.currentSmileBurst, p.smileCooldownActive,
                               currentTimestampMs, FALSE)
        burst == scan.burst
        ends == burst # NullBurst /\ BurstEnds(burst, currentTimestampMs, scan.smileDetectedInFrame)
        extract == ends /\ BurstLongEnough(burst, currentTimestampMs)
        count == IF extract THEN p.smilingFacesCount + 1 ELSE p.smilingFacesCount
    IN  [M EXCEPT
            !.vp[r].detections = detections,
            !.vp[r].currentSmileBurst = IF ends THEN NullBurst ELSE burst,
            !.vp[r].extractedFrames = IF extract THEN Append(@, burst.bestFrame) ELSE @,
            !.vp[r].smilingFacesCount = count,
            !.stats.smilingFaces = IF extract THEN count ELSE @,
            !.vp[r].smileCooldownActive = IF ends THEN TRUE ELSE @,
            !.vp[r].cooldownTimeoutId = IF ends THEN "timer" ELSE @,
            !.vp[r].currentTime = @ + PROCESSING_FRAME_STEP_MS,
            !.vp[r].pc = "awaitFrame"]

\* ---------------------------------------------------------------------------
\* Listener callbacks and event dispatch
\* ---------------------------------------------------------------------------
\* an 'error' during the metadata wait taken for a successful load
Handle_LoadErrorIgnored(M, l) ==
    LET M1 == RemoveListeners(M, l.run, l.wait)
    IN  IF l.wait = "metadata"
        THEN AfterMetadata(M1, l.run)
        ELSE IF l.type = "seeked"
             THEN AfterSeekWait(M1, l.run, "seeked")
             ELSE Rejected(M1, l.run, "Video seek failed.")

\* the callback of one listener and the continuation of the promise it settles
Handle(M, l) ==
    LET M1 == RemoveListeners(M, l.run, l.wait)
    IN  IF l.wait = "metadata"
        THEN IF l.type = "loadedmetadata"
             THEN AfterMetadata(M1, l.run)                               \* lines 66-73
             ELSE Rejected(M1, l.run, "Failed to load video metadata.")  \* lines 74-79
        ELSE IF l.type = "seeked"
             THEN AfterSeekWait(M1, l.run, "seeked")                     \* lines 116-121
             ELSE Rejected(M1, l.run, "Video seek failed.")              \* lines 122-128

\* an event runs the listeners registered for it when it is dispatched, in
\* registration order, skipping those removed meanwhile
RECURSIVE DispatchTo(_, _, _)
DispatchTo(M, listeners, type) ==
    IF listeners = <<>> THEN M
    ELSE LET l == Head(listeners)
         IN  IF l.type = type /\ IsRegistered(M, l)
             THEN DispatchTo(Handle(M, l), Tail(listeners), type)
             ELSE DispatchTo(M, Tail(listeners), type)

Dispatch(M, type) == DispatchTo(M, M.video.listeners, type)

\* ---------------------------------------------------------------------------
\* Actions
\* ---------------------------------------------------------------------------
\* handleStartProcessing (part_001 lines 64-83) into processVideo up to its
\* first await (videoProcessor.ts lines 49-82)
StartProcessing(M, r) ==
    AddListeners(
        [M EXCEPT !.app.error = "none",
                  !.app.extractedFrames = <<>>,
                  !.stats.isProcessing = TRUE,
                  !.vp[r] = [NewProcessor EXCEPT !.pc = "awaitMetadata",
                                                 !.stopProcessingFlag = FALSE,
                                                 !.objectUrl = "live"],
                  !.video.src = r,
                  !.video.duration = NaN,
                  !.video.currentTime = 0,
                  !.video.seeking = FALSE],
        r, "metadata", "loadedmetadata", "error")

Settled(r) == vp[r].pc \in {"resolved", "rejected"}

Active(r) == vp[r].pc \notin {"idle", "resolved", "rejected"}

\* the caller starts a run; nothing else is running
HandleStartProcessing ==
    /\ vp["first"].pc = "idle"
    /\ Commit(StartProcessing(Cur, "first"))

\* the caller starts a run while the earlier one has not settled
HandleStartProcessingAgain ==
    /\ Active("first")
    /\ vp["second"].pc = "idle"
    /\ Commit(StartProcessing(Cur, "second"))

\* the element has loaded the metadata of its source
VideoLoadedMetadata ==
    /\ HasListener(video, "loadedmetadata")
    /\ Commit(Dispatch([Cur EXCEPT !.video.duration = file.duration], "loadedmetadata"))

\* the element has completed a seek
VideoSeeked ==
    /\ HasListener(video, "seeked")
    /\ Commit(Dispatch([Cur EXCEPT !.video.seeking = FALSE], "seeked"))

\* the element reports a load or decode error
VideoError ==
    /\ HasListener(video, "error")
    /\ Commit(Dispatch(Cur, "error"))

\* the seek wait without its timer (as in the earlier revision, part_002)
SeekTimeout_NoTimer(r) == FALSE /\ UNCHANGED vars

\* lines 132-137: the seek wait's 1000 ms timer fires
SeekTimeout(r) ==
    /\ vp[r].pc = "awaitSeek"
    /\ Commit(AfterSeekWait(RemoveListeners(Cur, r, "seek"), r, "timeout"))

\* line 147: the detection call returns
DetectFacesReturns(r) ==
    /\ vp[r].pc = "awaitDetect"
    /\ \E detections \in FacesAt(file, video.currentTime) :
          Commit(AfterDetection(Cur, r, detectFaces(faceDetectionService, detections)))

\* line 147: the detection call throws (face-api fails on the frame)
DetectFacesThrows(r) ==
    /\ vp[r].pc = "awaitDetect"
    /\ faceDetectionService.isInitialized
    /\ Commit(Rejected(Cur, r, "detection failed"))

\* line 229: the animation frame arrives and the loop goes round
AnimationFrame(r) ==
    /\ vp[r].pc = "awaitFrame"
    /\ Commit(LoopHead(Cur, r))

\* lines 217-221: the cooldown timer fires
CooldownTimeout(r) ==
    /\ vp[r].cooldownTimeoutId # "null"
    /\ Commit([Cur EXCEPT !.vp[r].smileCooldownActive = FALSE,
                          !.vp[r].cooldownTimeoutId = "null"])

\* lines 35-42
StopProcessing(r) ==
    /\ vp[r].pc # "idle"
    /\ ~vp[r].stopProcessingFlag
    /\ Commit([Cur EXCEPT !.vp[r].stopProcessingFlag = TRUE,
                          !.vp[r].cooldownTimeoutId = "null"])

RunStep(r) ==
    \/ SeekTimeout(r)
    \/ DetectFacesReturns(r)
    \/ DetectFacesThrows(r)
    \/ AnimationFrame(r)
    \/ CooldownTimeout(r)
    \/ StopProcessing(r)

Next ==
    \/ HandleStartProcessing
    \/ VideoLoadedMetadata
    \/ VideoSeeked
    \/ VideoError
    \/ \E r \in Runs : RunStep(r)

Spec == Init /\ [][Next]_vars

NextOverlapping == Next \/ HandleStartProcessingAgain

InitOverlapping ==
    /\ Init
    /\ file = SmilingThroughoutFile(MaxOverlapSamples)
    /\ options = [extractAll |-> FALSE, maxExtract |-> 2]
    /\ faceDetectionService.isInitialized

SpecOverlapping == InitOverlapping /\ [][NextOverlapping]_vars

\* the seek wait's timer is a setTimeout: once armed it fires unless cleared
FairSpec == Spec /\ \A r \in Runs : WF_vars(SeekTimeout(r))

\* ---------------------------------------------------------------------------
\* Properties
\* ---------------------------------------------------------------------------
Abs(x) == IF x < 0 THEN -x ELSE x

Timestamps(frames) == {frames[i].timestamp : i \in 1..Len(frames)}

\* the run resolved after visiting every sample instant of the video
FullScan(r) == vp[r].pc = "resolved" /\ vp[r].currentTime >= file.duration

\* the instants of a scripted file at which a smile is detected
SmileInstants(f) == {s[1] : s \in f.smiles}

Earliest(S) == CHOOSE t \in S : \A u \in S : t <= u

Latest(S) == CHOOSE t \in S : \A u \in S : u <= t

\* the confidence of the smile detected at instant t of a scripted file
ConfidenceAt(f, t) == (CHOOSE s \in f.smiles : s[1] = t)[2]

\* C1: with extractAll = false the returned collection never has more than
\* maxExtract frames.
C1_CapInvariant ==
    \A r \in Runs :
        (vp[r].pc = "resolved" /\ ~options.extractAll)
            => Len(vp[r].result) <= options.maxExtract

\* C2: a call made while an earlier call has not settled is rejected at once,
\* and the earlier call keeps the video element bound to its own source.
C2_ConcurrentRunRejected ==
    /\ vp["second"].pc \in {"idle", "rejected"}
    /\ Active("first") => video.src = "first"

\* C3: any two frames of a returned collection are at least the minimum
\* diversity gap apart in video time.
C3_DiversityInvariant ==
    \A r \in Runs :
        vp[r].pc = "resolved" =>
            \A i, j \in 1..Len(vp[r].result) :
                i # j => Abs(vp[r].result[i].timestamp - vp[r].result[j].timestamp)
                            >= SMILE_COOLDOWN_DURATION_MS

\* C4: in the 10 s video with smiles detected only at 1.0 s and 8.0 s, a full
\* scan with maxExtract >= 2 returns two frames, one per smile.
C4_TwoSeparatedSmilesKept ==
    \A r \in Runs :
        (/\ file = TwoFarFile
         /\ faceDetectionService.isInitialized
         /\ options.extractAll \/ options.maxExtract >= 2
         /\ FullScan(r))
            => Len(vp[r].result) = 2 /\ Timestamps(vp[r].result) = {1000, 8000}

\* the outcome C5 describes: one frame, that of the more confident of the two
\* smiles (of the earlier one when they tie)
OneFrameOfTheBetterSmile(r) ==
    LET first == Earliest(SmileInstants(file))
        second == Latest(SmileInstants(file))
        best == IF ConfidenceAt(file, second) > ConfidenceAt(file, first)
                THEN second ELSE first
    IN  /\ Len(vp[r].result) = 1
        /\ vp[r].result[1].timestamp = best
        /\ vp[r].result[1].confidence = ConfidenceAt(file, best)

TwoSmilesApart(f) == Latest(SmileInstants(f)) - Earliest(SmileInstants(f))

C6_TopTwoOfFour ==
    \A r \in Runs :
        (/\ vp[r].pc = "resolved"
         /\ options = [extractAll |-> FALSE, maxExtract |-> 2]
         /\ Len(vp[r].extractedFrames) = 4)
            => vp[r].result = SubSeq(SortByConfidenceDesc(vp[r].extractedFrames), 1, 2)

\* C7: the returned collection is sorted by confidence, highest first.
C7_OrderingInvariant ==
    \A r \in Runs :
        vp[r].pc = "resolved" =>
            \A i \in 1..(Len(vp[r].result) - 1) :
                vp[r].result[i].confidence >= vp[r].result[i + 1].confidence

\* a run ended by stopProcessing returned frames in an order other than the
\* order of extraction
C7_Witness ==
    \E r \in Runs :
        /\ vp[r].pc = "resolved"
        /\ vp[r].stopProcessingFlag
        /\ Len(vp[r].result) >= 2
        /\ vp[r].result # vp[r].extractedFrames

\* the detector reports no face at any sample instant of the file
NoFacesThroughout ==
    \A t \in SampleTimes(file.duration) : FacesAt(file, t) = {<<>>}

\* C8: when no face is detected at any sample, no burst is ever opened and no
\* frame extracted, and the run that resolves returns an empty collection,
\* sets no error and leaves isProcessing = false and smilingFaces = 0.
C8_NoFacesEmptyResult ==
    NoFacesThroughout =>
        \A r \in Runs :
            /\ vp[r].extractedFrames = <<>>
            /\ vp[r].currentSmileBurst = NullBurst
            /\ vp[r].pc = "resolved" =>
                  /\ vp[r].result = <<>>
                  /\ app.extractedFrames = <<>>
                  /\ app.error = "none"
                  /\ ~stats.isProcessing
                  /\ stats.smilingFaces = 0

\* the scan of the faceless video visited all its eight samples and resolved
C8_Witness ==
    /\ file = NoFacesFile
    /\ faceDetectionService.isInitialized
    /\ FullScan("first")
    /\ stats.processedFrames = 8
    /\ ~stats.isProcessing

\* C9: every seek wait settles, whether or not the element ever delivers
\* 'seeked' or 'error'.
C9_SeekWaitSettles ==
    \A r \in Runs : (vp[r].pc = "awaitSeek") ~> (vp[r].pc # "awaitSeek")

\* a sample whose seek wait ended by timeout was carried through and the scan
\* is about to go on to the next sample
C9_Witness ==
    \E r \in Runs : vp[r].seekSettledBy = "timeout" /\ vp[r].pc = "awaitFrame"

\* C10 as stated: a sample whose seek wait ended by timeout is skipped: it
\* opens no burst, changes no burst and adds no frame.
C10_TimedOutSampleSkipped_Original ==
    [][\A r \in Runs :
          (vp[r].seekSettledBy = "timeout" /\ vp[r].pc = "awaitDetect")
              => /\ vp'[r].currentSmileBurst = vp[r].currentSmileBurst
                 /\ vp'[r].extractedFrames = vp[r].extractedFrames]_vars

\* C10 amended: a seek wait that ends by timeout does not abort the run and
\* does not skip the sample: unless a stop was requested, the sample is
\* counted in processedFrames and handed to the detector with the video at the
\* requested position, and the detection's return moves the scan one step on.
C10_TimedOutSampleProcessed ==
    [][\A r \in Runs :
          /\ (vp[r].pc = "awaitSeek" /\ vp'[r].pc # "awaitSeek"
                /\ vp'[r].seekSettledBy = "timeout" /\ ~vp[r].stopProcessingFlag)
                => /\ vp'[r].pc = "awaitDetect"
                   /\ vp'[r].processedFrames = vp[r].processedFrames + 1
                   /\ stats'.processedFrames = vp'[r].processedFrames
                   /\ video'.currentTime = vp[r].currentTime
          /\ (vp[r].pc # "awaitFrame" /\ vp'[r].pc = "awaitFrame")
                => /\ vp[r].pc = "awaitDetect"
                   /\ vp'[r].currentTime = vp[r].currentTime + PROCESSING_FRAME_STEP_MS]_vars

\* a sample whose seek wait ended by timeout opened a burst
C10_Witness ==
    \E r \in Runs :
        /\ vp[r].seekSettledBy = "timeout"
        /\ vp[r].pc = "awaitFrame"
        /\ vp[r].currentSmileBurst # NullBurst
        /\ vp[r].currentSmileBurst.startTime = video.currentTime

\* the timers of the seek wait and of the cooldown are setTimeouts and the
\* loop's yield is a requestAnimationFrame: once pending, each fires; nothing
\* in the code makes the element deliver an event or the detector return
FairRuntimeSpec ==
    /\ Spec
    /\ \A r \in Runs : /\ WF_vars(SeekTimeout(r))
                       /\ WF_vars(AnimationFrame(r))
                       /\ WF_vars(CooldownTimeout(r))

\* C11: a detection call that throws for one sample does not abort the run:
\* no run is rejected because of a detection failure.
C11_DetectionErrorIsolated ==
    \A r \in Runs : ~(vp[r].pc = "rejected" /\ vp[r].error = "detection failed")

\* C12: a run made while the detection service is not initialized never
\* completes normally after handing a frame to the service.
C12_UnavailableProviderSurfaced ==
    ~faceDetectionService.isInitialized =>
        \A r \in Runs : ~(vp[r].pc = "resolved" /\ vp[r].processedFrames >= 1)

\* C13: every started call eventually settles, whether or not the element
\* delivers its events and the detector returns.
C13_EveryRunSettles ==
    \A r \in Runs : Active(r) ~> Settled(r)

\* C14: once stopProcessing has been called, a detection result that arrives
\* afterwards is not scored: it starts no burst, updates no burst and causes
\* no frame to be accepted.
C14_NoScoringAfterStop ==
    [][\A r \in Runs :
          (vp[r].stopProcessingFlag /\ vp[r].pc = "awaitDetect")
              => /\ vp'[r].currentSmileBurst = vp[r].currentSmileBurst
                 /\ vp'[r].extractedFrames = vp[r].extractedFrames]_vars

\* C15: a run in which stopProcessing has been called does not hang: it
\* eventually settles.
C15_StopLeadsToSettle ==
    \A r \in Runs : (vp[r].stopProcessingFlag /\ Active(r)) ~> Settled(r)

\* C16: when a call settles, the object URL it created for the source file
\* has been revoked.
C16_ObjectUrlRevoked ==
    \A r \in Runs : Settled(r) => vp[r].objectUrl = "revoked"

\* C17: a settled run has exactly one outcome for the caller: either its
\* result is delivered and no error is set, or its error is set and no frame
\* is delivered, whatever had been extracted before the error.
C17_SingleOutcome ==
    \A r \in Runs :
        /\ vp[r].pc = "resolved" =>
              /\ app.error = "none"
              /\ vp[r].error = "none"
              /\ app.extractedFrames = vp[r].result
        /\ vp[r].pc = "rejected" =>
              /\ app.error = vp[r].error
              /\ app.error # "none"
              /\ app.extractedFrames = <<>>
              /\ vp[r].result = <<>>

\* a run rejected after it had extracted a frame, which the caller never sees
C17_Witness ==
    \E r \in Runs :
        /\ vp[r].pc = "rejected"
        /\ vp[r].extractedFrames # <<>>
        /\ app.extractedFrames = <<>>
        /\ app.error = vp[r].error

\* the listeners run r has on the video element
ListenersOf(v, r) == SelectSeq(v.listeners, LAMBDA l : l.run = r)

\* C18: a metadata wait that ends without the metadata loaded ends in a
\* rejection with the load-failure error; no sample has been seeked, detected
\* or counted, and the run's listeners are off the element.
C18_LoadFailureAborts ==
    [][\A r \in Runs :
          (vp[r].pc = "awaitMetadata" /\ vp'[r].pc # "awaitMetadata" /\ video'.duration = NaN)
              => /\ vp'[r].pc = "rejected"
                 /\ vp'[r].error = "Failed to load video metadata."
                 /\ app'.error = "Failed to load video metadata."
                 /\ vp'[r].processedFrames = 0
                 /\ stats'.processedFrames = stats.processedFrames
                 /\ vp'[r].seekSettledBy = "none"
                 /\ video'.currentTime = 0
                 /\ ListenersOf(video', r) = <<>>]_vars

\* the run was rejected for a load failure and nothing is left on the element
C18_Witness ==
    \E r \in Runs :
        /\ vp[r].pc = "rejected"
        /\ vp[r].error = "Failed to load video metadata."
        /\ video.duration = NaN
        /\ video.listeners = <<>>

\* C19: the reported processedFrames goes up by exactly one each time a
\* sample is handed to the detector and at no other time, so that it equals
\* the number of samples reached so far; totalFrames, once reported after the
\* metadata wait, does not change while the run is active.
C19_ProgressPerSample ==
    [][\A r \in Runs :
          /\ (vp[r].pc # "awaitDetect" /\ vp'[r].pc = "awaitDetect")
                => /\ stats'.processedFrames = stats.processedFrames + 1
                   /\ stats'.processedFrames = vp'[r].processedFrames
                   /\ stats'.processedFrames * PROCESSING_FRAME_STEP_MS
                         = vp'[r].currentTime + PROCESSING_FRAME_STEP_MS
          /\ (Active(r) /\ stats'.processedFrames # stats.processedFrames)
                => vp[r].pc # "awaitDetect" /\ vp'[r].pc = "awaitDetect"
          /\ (Active(r) /\ vp[r].pc # "awaitMetadata")
                => /\ stats'.totalFrames = stats.totalFrames
                   /\ stats.totalFrames = vp[r].estimatedTotalFrames]_vars

\* the progress report of the third sample of a run
C19_Witness ==
    \E r \in Runs :
        /\ vp[r].pc = "awaitDetect"
        /\ stats.processedFrames = 3
        /\ vp[r].currentTime = 2 * PROCESSING_FRAME_STEP_MS
        /\ stats.totalFrames >= 3

\* C20: a run has one wait in flight at a time: its seek listeners are on the
\* element exactly while it waits for a seek, so no seek wait is pending
\* during a detection call.  A seek is requested only after the metadata wait
\* or after the animation frame that follows a completed sample, never
\* straight from a detection, and each seek is one sampling step later in video
\* time than the one before it.  The detection's return settles the burst
\* for its sample before the scan yields.
C20_StrictlySequentialSamples ==
    [][\A r \in Runs :
          /\ Len(ListenersOf(video, r)) = IF vp[r].pc \in {"awaitSeek", "awaitMetadata"} THEN 2 ELSE 0
          /\ (vp[r].pc = "awaitSeek")
                => \A i \in 1..2 : ListenersOf(video, r)[i].wait = "seek"
          /\ (vp[r].pc # "awaitSeek" /\ vp'[r].pc = "awaitSeek")
                => /\ vp[r].pc \in {"awaitMetadata", "awaitFrame"}
                   /\ video'.currentTime = vp'[r].currentTime
                   /\ vp[r].pc = "awaitMetadata" => video'.currentTime = 0
                   /\ vp[r].pc = "awaitFrame"
                         => video'.currentTime = video.currentTime + PROCESSING_FRAME_STEP_MS
          /\ (vp[r].pc = "awaitDetect" /\ vp'[r].pc # "awaitDetect")
                => /\ vp'[r].pc \in {"awaitFrame", "rejected"}
                   /\ video'.currentTime = video.currentTime
                   /\ vp'[r].pc = "awaitFrame"
                         => vp'[r].currentTime = video.currentTime + PROCESSING_FRAME_STEP_MS
          /\ (vp[r].pc = "awaitFrame")
                => /\ vp'[r].currentSmileBurst = vp[r].currentSmileBurst
                   /\ vp[r].currentSmileBurst # NullBurst
                         => vp[r].currentSmileBurst.lastDetectionTime <= video.currentTime]_vars

\* the seek of the third sample is pending, the burst of the second settled
C20_Witness ==
    \E r \in Runs :
        /\ vp[r].pc = "awaitSeek"
        /\ video.currentTime = 2 * PROCESSING_FRAME_STEP_MS
        /\ vp[r].currentSmileBurst # NullBurst
        /\ vp[r].currentSmileBurst.lastDetectionTime = PROCESSING_FRAME_STEP_MS
        /\ Len(video.listeners) = 2

\* ---------------------------------------------------------------------------
\* File selection while a run may be in progress
\* ---------------------------------------------------------------------------
\* App.handleVideoSelect, reached from VideoUpload's handleDrop (which is not
\* disabled during processing) and handleFileSelect.  The file chosen is the
\* one already selected, so that file still describes the source of a run in
\* progress; tooLarge is the outcome of the size test.
HandleVideoSelect ==
    \E tooLarge \in BOOLEAN :
        /\ IF tooLarge
           THEN /\ app' = [app EXCEPT !.error = "Video file is too large."]
                /\ UNCHANGED stats
           ELSE /\ app' = [app EXCEPT !.error = "none", !.extractedFrames = <<>>]
                /\ stats' = [totalFrames |-> 0, processedFrames |-> 0,
                             smilingFaces |-> 0, isProcessing |-> FALSE]
        /\ UNCHANGED <<vp, video, faceDetectionService, file, options, hybrid>>

NextSelecting == Next \/ HandleVideoSelect

SpecSelecting == Init /\ [][NextSelecting]_vars

\* C21: while a run is active nothing but the run changes the stats: from the
\* moment isProcessing is true it stays true, and processedFrames and
\* smilingFaces are never set back, until the run ends.
C21_StatsSingleWriter ==
    [][\A r \in Runs :
          (Active(r) /\ vp'[r].pc = vp[r].pc /\ stats.isProcessing)
              => /\ stats'.isProcessing
                 /\ stats'.processedFrames >= stats.processedFrames
                 /\ stats'.smilingFaces >= stats.smilingFaces]_vars

\* ---------------------------------------------------------------------------
\* App.saveFrame (part_001 lines 95-137)
\* ---------------------------------------------------------------------------
\* the positions of the frame the element may present: its current position
\* when no seek is in progress, else that of an earlier sample
PresentedPositions(v) ==
    IF v.seeking THEN SampleTimes(v.duration) ELSE {v.currentTime}

\* the user saves one of the frames shown. Without intrinsic dimensions the
\* function returns (lines 108-112); else it assigns video.currentTime, which
\* starts a seek, and draws and exports in the same task (lines 122-126): the
\* frame drawn is the one the element presented before the assignment
SaveFrame ==
    \E i \in 1..Len(app.extractedFrames) :
        LET frame == app.extractedFrames[i]
        IN  /\ video.duration # NaN
            /\ video' = [video EXCEPT !.currentTime = frame.timestamp, !.seeking = TRUE]
            /\ \E drawn \in PresentedPositions(video) :
                  app' = [app EXCEPT !.saved = [timestamp |-> frame.timestamp,
                                               drawn |-> drawn]]
            /\ UNCHANGED <<vp, stats, faceDetectionService, file, options, hybrid>>

\* a seek nobody listens for completes: the element presents the frame at
\* its current position
SeekCompletes ==
    /\ ~HasListener(video, "seeked")
    /\ video.seeking
    /\ video' = [video EXCEPT !.seeking = FALSE]
    /\ UNCHANGED <<vp, stats, app, faceDetectionService, file, options, hybrid>>

NextSaving == Next \/ SaveFrame \/ SeekCompletes

SpecSaving == Init /\ [][NextSaving]_vars

\* ---------------------------------------------------------------------------
\* The hybrid FaceDetectionService (faceDetection.ts): geometric scorer and
\* combiner
\* ---------------------------------------------------------------------------
Returns(o) == [o EXCEPT !.throws = "none"]

Throws(error) == [NoOutcome EXCEPT !.throws = error]

\* JavaScript's x / y on non-negative distances
Ratio(x, y) ==
    IF y = 0 THEN (IF x = 0 THEN NaN ELSE Infinity) ELSE (x * 100) \div y

\* Math.max(0, Math.min(1, x)), which hands a NaN on
Clamp01(x) == IF x = NaN THEN NaN ELSE IF x < 0 THEN 0 ELSE IF x > 100 THEN 100 ELSE x

\* lines 267-310: the first statement (line 291) reads points, a name that is
\* a local of analyzeSmileGeometry and is not in scope here, so the call ends
\* in a ReferenceError before any distance is measured
calculateEyeCrinkle(eyeToBrow, eyeWidth) == Throws("ReferenceError")

\* lines 327-338
calculateSmileSymmetry(leftDistance, rightDistance) ==
    LET larger == IF leftDistance > rightDistance THEN leftDistance ELSE rightDistance
        smaller == IF leftDistance > rightDistance THEN rightDistance ELSE leftDistance
    IN  IF larger = 0 THEN 100 ELSE Ratio(smaller, larger)

\* lines 208-238: the geometric score of a set of features
geometricConfidence(f) ==
    LET width == IF f.mouthWidthRatio > 40 THEN 30
                 ELSE IF f.mouthWidthRatio > 30 THEN 25
                 ELSE IF f.mouthWidthRatio > 20 THEN 15 ELSE 0
        curvature == IF f.mouthCurvature > 70 THEN 20
                     ELSE IF f.mouthCurvature > 50 THEN 10 ELSE 0
        crinkle == IF f.avgEyeCrinkle > 70 THEN 30
                   ELSE IF f.avgEyeCrinkle > 50 THEN 20
                   ELSE IF f.avgEyeCrinkle > 30 THEN 10 ELSE 0
        symmetry == IF f.symmetryScore > 80 THEN 10
                    ELSE IF f.symmetryScore > 60 THEN 5 ELSE 0
        open == IF f.mouthWidthRatio > 35 /\ f.mouthOpennessRatio > 40 THEN 15
                ELSE IF f.mouthWidthRatio > 25 /\ f.mouthOpennessRatio > 20 THEN 5 ELSE 0
        geometricScore == width + curvature + crinkle + symmetry + open
    IN  IF geometricScore > 100 THEN 100 ELSE geometricScore

\* lines 135-241
analyzeSmileGeometry(l) ==
    LET mouthWidthRatio == Ratio(l.mouthWidth, l.interEyeDistance)
        mouthCurvature ==
            Clamp01((IF l.mouthWidth > 0 THEN Ratio(l.cornerLift, l.mouthWidth) ELSE 0) * 5 + 30)
        leftEyeCrinkle == calculateEyeCrinkle(l.eyeToBrow, l.eyeWidth)
        rightEyeCrinkle == calculateEyeCrinkle(l.eyeToBrow, l.eyeWidth)
        avgEyeCrinkle ==
            IF leftEyeCrinkle.confidence = NaN \/ rightEyeCrinkle.confidence = NaN THEN NaN
            ELSE (leftEyeCrinkle.confidence + rightEyeCrinkle.confidence) \div 2
        features ==
            [mouthWidthRatio |-> mouthWidthRatio, mouthCurvature |-> mouthCurvature,
             avgEyeCrinkle |-> avgEyeCrinkle,
             mouthOpennessRatio |-> Ratio(l.mouthHeight, l.mouthWidth),
             symmetryScore |-> calculateSmileSymmetry(l.leftDistance, l.rightDistance)]
    IN  IF leftEyeCrinkle.throws # "none" THEN leftEyeCrinkle
        ELSE IF rightEyeCrinkle.throws # "none" THEN rightEyeCrinkle
        ELSE Returns([NoOutcome EXCEPT !.confidence = geometricConfidence(features),
                                       !.features = features])

\* the combiner without its cap at 1
calculateCombinedConfidence_Uncapped(happyScore, geometricAnalysis) ==
    LET f == geometricAnalysis.features
        combinedScore == happyScore * 40 + geometricAnalysis.confidence * 60
        bonus ==
            (IF f.avgEyeCrinkle > 60 THEN 1500 ELSE 0)
            + (IF f.mouthWidthRatio > 35 THEN 500 ELSE 0)
            + (IF f.mouthOpennessRatio > 40 /\ f.mouthWidthRatio > 30 THEN 1000
               ELSE IF f.mouthOpennessRatio > 25 /\ f.mouthWidthRatio > 25 THEN 500 ELSE 0)
    IN  Returns([NoOutcome EXCEPT !.confidence = combinedScore + bonus,
                                  !.isGenuine = combinedScore + bonus > 5000])

\* the combiner with the gate of the earlier revision (part_003): the three
\* floors and nothing else
calculateCombinedConfidence_TripleGateOnly(happyScore, geometricAnalysis) ==
    LET f == geometricAnalysis.features
        combinedScore == happyScore * 40 + geometricAnalysis.confidence * 60
        bonus ==
            (IF f.avgEyeCrinkle > 60 THEN 1500 ELSE 0)
            + (IF f.mouthWidthRatio > 35 THEN 500 ELSE 0)
            + (IF f.mouthOpennessRatio > 40 /\ f.mouthWidthRatio > 30 THEN 1000
               ELSE IF f.mouthOpennessRatio > 25 /\ f.mouthWidthRatio > 25 THEN 500 ELSE 0)
        finalConfidence ==
            IF combinedScore + bonus > 10000 THEN 10000 ELSE combinedScore + bonus
    IN  Returns([NoOutcome EXCEPT
                    !.confidence = finalConfidence,
                    !.isGenuine = /\ finalConfidence > 5000
                                  /\ geometricAnalysis.confidence > 30
                                  /\ happyScore > 20])

\* lines 340-372; the confidence returned is in ten-thousandths
calculateCombinedConfidence(happyScore, geometricAnalysis) ==
    LET f == geometricAnalysis.features
        combinedScore == happyScore * 40 + geometricAnalysis.confidence * 60
        bonus ==
            (IF f.avgEyeCrinkle > 60 THEN 1500 ELSE 0)
            + (IF f.mouthWidthRatio > 35 THEN 500 ELSE 0)
            + (IF f.mouthOpennessRatio > 40 /\ f.mouthWidthRatio > 30 THEN 1000
               ELSE IF f.mouthOpennessRatio > 25 /\ f.mouthWidthRatio > 25 THEN 500 ELSE 0)
        finalConfidence ==
            IF combinedScore + bonus > 10000 THEN 10000 ELSE combinedScore + bonus
        isGenuine ==
            \/ finalConfidence > 5000 /\ geometricAnalysis.confidence > 30 /\ happyScore > 20
            \/ happyScore > 70 /\ f.avgEyeCrinkle > 40
            \/ f.mouthWidthRatio > 40 /\ f.mouthOpennessRatio > 50 /\ happyScore > 30
    IN  Returns([NoOutcome EXCEPT !.confidence = finalConfidence, !.isGenuine = isGenuine])

\* ---------------------------------------------------------------------------
\* Inputs and actions of the hybrid service
\* the pre-filter with its condition dropped
PassesPreFilter_Always(happyScore) == TRUE

\* line 91
PassesPreFilter(happyScore) == happyScore > 5

\* lines 82-112: the per-face loop from face i on; acc carries
\* bestSmileConfidence (confidence), genuineSmileCount and the positions of
\* the faces handed to the geometric scorer so far (analyzed)
RECURSIVE ScanHybridDetections(_, _, _)
ScanHybridDetections(detections, i, acc) ==
    IF i > Len(detections) THEN acc
    ELSE IF ~PassesPreFilter(detections[i].happyScore)
    THEN ScanHybridDetections(detections, i + 1, acc)
    ELSE
        LET geometricAnalysis == analyzeSmileGeometry(detections[i].landmarks)
            combinedConfidence ==
                calculateCombinedConfidence(detections[i].happyScore, geometricAnalysis)
            seen == Append(acc.analyzed, i)
        IN  IF geometricAnalysis.throws # "none"
            THEN [acc EXCEPT !.throws = geometricAnalysis.throws, !.analyzed = seen]
            ELSE IF combinedConfidence.isGenuine
            THEN ScanHybridDetections(detections, i + 1,
                    [acc EXCEPT !.genuineSmileCount = @ + 1,
                                !.confidence =
                                    IF combinedConfidence.confidence > @
                                    THEN combinedConfidence.confidence ELSE @,
                                !.analyzed = seen])
            ELSE ScanHybridDetections(detections, i + 1, [acc EXCEPT !.analyzed = seen])

\* lines 65-133: a throw inside the loop is logged and rethrown (129-131)
detectWithHybridMethod(detections) ==
    LET scan == ScanHybridDetections(detections, 1, NoOutcome)
    IN  IF scan.throws # "none" THEN scan
        ELSE [scan EXCEPT !.hasSmile = scan.genuineSmileCount > 0,
                          !.isGenuine = scan.confidence > 4000,
                          !.faceCount = Len(detections)]

\* ---------------------------------------------------------------------------
\* landmark sets, reduced to the distances analyzeSmileGeometry measures; each
\* denominator (mouth width, outer-eye distance, eye width) may be zero
LandmarkSets ==
    [mouthWidth : {0, 10}, interEyeDistance : {0, 20}, mouthHeight : {0, 5},
     cornerLift : {0, 1}, eyeToBrow : {0, 5}, eyeWidth : {0, 10},
     leftDistance : {0, 10}, rightDistance : {0, 10}]

Degenerate(l) == l.mouthWidth = 0 \/ l.interEyeDistance = 0 \/ l.eyeWidth = 0

FeatureSets ==
    [mouthWidthRatio : {0, 26, 31, 36, 41, Infinity, NaN},
     mouthCurvature : {30, 60, 80},
     avgEyeCrinkle : {0, 35, 45, 55, 65, 75, NaN},
     mouthOpennessRatio : {0, 21, 26, 41, 51, Infinity, NaN},
     symmetryScore : {0, 70, 100}]

\* happy probabilities, in hundredths, on both sides of each threshold
HybridHappyScores == {0, 5, 6, 20, 21, 30, 31, 50, 70, 71, 100}

\* the most faces face-api reports on one canvas
MaxHybridFaces == 2

\* every landmark at one point
AllCoincident == NoLandmarks

WideOpenSmile ==
    [mouthWidth |-> 10, interEyeDistance |-> 20, mouthHeight |-> 5, cornerLift |-> 1,
     eyeToBrow |-> 5, eyeWidth |-> 10, leftDistance |-> 10, rightDistance |-> 10]

\* detections of face-api: a happy probability at, below and above the
\* pre-filter threshold, with landmarks of either kind
HybridDetections ==
    [happyScore : {0, 5, 6, 71}, landmarks : {AllCoincident, WideOpenSmile}]

HybridDetectionLists ==
    UNION {[1..n -> HybridDetections] : n \in 0..MaxHybridFaces}

\* one function application at a time: each is made, observed with its
\* outcome, and done with before the next
NoCallPending == hybrid.call.fn = "none"

SetCall(c) ==
    /\ hybrid' = [hybrid EXCEPT !.call = c]
    /\ UNCHANGED <<vp, video, stats, app, faceDetectionService, file, options>>

CallDone ==
    /\ hybrid.call.fn # "none"
    /\ hybrid' = [hybrid EXCEPT !.call = NoCall]
    /\ UNCHANGED <<vp, video, stats, app, faceDetectionService, file, options>>

AnalyzeSmileGeometry ==
    /\ NoCallPending
    /\ \E l \in LandmarkSets :
          SetCall([NoCall EXCEPT !.fn = "analyzeSmileGeometry",
                                 !.landmarks = l,
                                 !.outcome = analyzeSmileGeometry(l)])

\* the combiner applied to a happy probability and to the analysis the scoring
\* block gives for a set of features
CalculateCombinedConfidence ==
    /\ NoCallPending
    /\ \E happyScore \in HybridHappyScores, f \in FeatureSets :
          SetCall([NoCall EXCEPT
                      !.fn = "calculateCombinedConfidence",
                      !.happyScore = happyScore,
                      !.features = f,
                      !.outcome = calculateCombinedConfidence(
                                      happyScore,
                                      [confidence |-> geometricConfidence(f), features |-> f])])

DetectWithHybridMethod ==
    /\ NoCallPending
    /\ \E detections \in HybridDetectionLists :
          SetCall([NoCall EXCEPT !.fn = "detectWithHybridMethod",
                                 !.faces = detections,
                                 !.outcome = detectWithHybridMethod(detections)])

NextHybrid ==
    \/ AnalyzeSmileGeometry
    \/ CalculateCombinedConfidence
    \/ DetectWithHybridMethod
    \/ CallDone

InitHybrid ==
    /\ Init
    /\ file = NoFacesFile
    /\ options = [extractAll |-> FALSE, maxExtract |-> 2]
    /\ faceDetectionService.isInitialized

SpecHybrid == InitHybrid /\ [][NextHybrid]_vars

\* ---------------------------------------------------------------------------
\* FaceDetectionService.initialize and its callers (faceDetection.ts 8-63)
\* ---------------------------------------------------------------------------
\* lines 8-15: initialize() up to its await: it returns at once when the
\* service is initialized, and starts loading the models otherwise
InitializeCall(h, c) ==
    IF h.initialized THEN [h EXCEPT !.init[c] = "resolved"]
    ELSE [h EXCEPT !.init[c] = "loading", !.loadsStarted = @ + 1]

\* lines 374-376
isUsingRealDetection(h) == h.detectionMethod = "faceapi-hybrid" /\ h.initialized

\* lines 58-62: detectSmileInFrame after its lazy initialization
DetectSmileInFrameResumes(h) ==
    IF h.detectionMethod # "faceapi-hybrid" \/ ~h.modelsLoaded
    THEN {[h EXCEPT !.call = [NoCall EXCEPT
                                 !.fn = "detectSmileInFrame",
                                 !.outcome = Throws("Face-API.js detection not available")]]}
    ELSE {[h EXCEPT !.call = [NoCall EXCEPT
                                 !.fn = "detectSmileInFrame",
                                 !.faces = detections,
                                 !.outcome = detectWithHybridMethod(detections)]] :
            detections \in HybridDetectionLists}

\* App's effect calls initialize() (part_001 lines 31-43), at each mount
Initialize ==
    /\ hybrid.init["app"] # "loading"
    /\ hybrid' = InitializeCall(hybrid, "app")
    /\ UNCHANGED <<vp, video, stats, app, faceDetectionService, file, options>>

\* lines 53-63: initialize() is awaited first when the service is not
\* initialized
DetectSmileInFrame ==
    /\ NoCallPending
    /\ hybrid.init["lazy"] # "loading"
    /\ IF ~hybrid.initialized
       THEN hybrid' = InitializeCall(hybrid, "lazy")
       ELSE hybrid' \in DetectSmileInFrameResumes(hybrid)
    /\ UNCHANGED <<vp, video, stats, app, faceDetectionService, file, options>>

\* lines 15-22: the models are loaded for caller c
LoadSucceeds(c) ==
    /\ hybrid.init[c] = "loading"
    /\ LET h == [hybrid EXCEPT !.detectionMethod = "faceapi-hybrid",
                               !.initialized = TRUE,
                               !.modelsLoaded = TRUE,
                               !.init[c] = "resolved"]
       IN  IF c = "lazy" THEN hybrid' \in DetectSmileInFrameResumes(h) ELSE hybrid' = h
    /\ UNCHANGED <<vp, video, stats, app, faceDetectionService, file, options>>

\* lines 24-29: the load for caller c fails; initialize() throws, and so does
\* the detectSmileInFrame that awaited it
LoadFails(c) ==
    /\ hybrid.init[c] = "loading"
    /\ LET h == [hybrid EXCEPT !.detectionMethod = "fallback",
                               !.initialized = TRUE,
                               !.init[c] = "rejected"]
       IN  IF c = "lazy"
           THEN hybrid' = [h EXCEPT !.call =
                               [NoCall EXCEPT
                                   !.fn = "detectSmileInFrame",
                                   !.outcome = Throws("Face-API.js initialization failed")]]
           ELSE hybrid' = h
    /\ UNCHANGED <<vp, video, stats, app, faceDetectionService, file, options>>

NextInitializing ==
    \/ Initialize
    \/ DetectSmileInFrame
    \/ \E c \in Callers : LoadSucceeds(c)
    \/ \E c \in Callers : LoadFails(c)
    \/ CallDone

SpecInitializing == InitHybrid /\ [][NextInitializing]_vars

\* C22: for every landmark set with a zero denominator analyzeSmileGeometry
\* returns, with confidence 0.
C22_DegenerateGeometryScoresZero ==
    (hybrid.call.fn = "analyzeSmileGeometry" /\ Degenerate(hybrid.call.landmarks))
        => /\ hybrid.call.outcome.throws = "none"
           /\ hybrid.call.outcome.confidence = 0

\* C23: the combiner's confidence is within [0, 1] and so is the geometric
\* confidence it is given.
C23_ConfidenceRange ==
    hybrid.call.fn = "calculateCombinedConfidence"
        => /\ hybrid.call.outcome.throws = "none"
           /\ hybrid.call.outcome.confidence \in 0..10000
           /\ geometricConfidence(hybrid.call.features) \in 0..100

\* both caps at work: a geometric score and a combined score above 1
C23_Witness ==
    /\ hybrid.call.fn = "calculateCombinedConfidence"
    /\ hybrid.call.outcome.confidence = 10000
    /\ geometricConfidence(hybrid.call.features) = 100
    /\ hybrid.call.features.mouthWidthRatio = 41
    /\ hybrid.call.features.avgEyeCrinkle = 75
    /\ hybrid.call.happyScore = 100

\* the three conditions of the gate
TripleGate(c) ==
    /\ c.outcome.confidence > 5000
    /\ geometricConfidence(c.features) > 30
    /\ c.happyScore > 20

\* C24 as stated: a face is reported genuine only if the final confidence,
\* the geometric confidence and the happy probability are all above their
\* floors.
C24_TripleGate_Original ==
    (hybrid.call.fn = "calculateCombinedConfidence" /\ hybrid.call.outcome.isGenuine)
        => TripleGate(hybrid.call)

\* C24 amended: a face is reported genuine exactly when the triple gate holds,
\* or the happy probability is above 0.7 with an eye crinkle above 0.4, or the
\* mouth is very wide (ratio above 0.4) and open (above 0.5) with a happy
\* probability above 0.3; in every case the happy probability is above 0.2.
C24_GenuineGate ==
    hybrid.call.fn = "calculateCombinedConfidence"
        => /\ hybrid.call.outcome.isGenuine
                <=> \/ TripleGate(hybrid.call)
                    \/ /\ hybrid.call.happyScore > 70
                       /\ hybrid.call.features.avgEyeCrinkle > 40
                    \/ /\ hybrid.call.features.mouthWidthRatio > 40
                       /\ hybrid.call.features.mouthOpennessRatio > 50
                       /\ hybrid.call.happyScore > 30
           /\ hybrid.call.outcome.isGenuine => hybrid.call.happyScore > 20

\* a face reported genuine with a geometric confidence and a final confidence
\* below their floors
C24_Witness ==
    /\ hybrid.call.fn = "calculateCombinedConfidence"
    /\ hybrid.call.outcome.isGenuine
    /\ geometricConfidence(hybrid.call.features) <= 30
    /\ hybrid.call.outcome.confidence <= 5000

\* positions of the faces of a call that the pre-filter lets through
PastPreFilter(detections) ==
    {i \in 1..Len(detections) : detections[i].happyScore > 5}

\* C25: a face whose happy probability is at most 0.05 is never handed to the
\* geometric scorer or the combiner and never counts as a genuine smile,
\* whatever its landmarks; a canvas with only such faces gives no smile.
C25_PreFilter ==
    hybrid.call.fn = "detectWithHybridMethod"
        => LET o == hybrid.call.outcome
               past == PastPreFilter(hybrid.call.faces)
           IN  /\ \A k \in 1..Len(o.analyzed) : o.analyzed[k] \in past
               /\ o.genuineSmileCount <= Cardinality(past)
               /\ past = {} => /\ o.throws = "none"
                                /\ o.analyzed = <<>>
                                /\ o.genuineSmileCount = 0
                                /\ o.confidence = 0
                                /\ ~o.hasSmile

\* a face at the threshold, with the landmarks of a wide open smile, skipped
\* and the face after it handed to the scorer
C25_Witness ==
    /\ hybrid.call.fn = "detectWithHybridMethod"
    /\ Len(hybrid.call.faces) = 2
    /\ hybrid.call.faces[1].happyScore = 5
    /\ hybrid.call.faces[1].landmarks = WideOpenSmile
    /\ hybrid.call.faces[2].happyScore = 6
    /\ hybrid.call.outcome.analyzed = <<2>>

\* C26: the final sort applied to the frames a run accumulated, and applied
\* again to what it returned, gives the returned sequence, frame for frame,
\* ties included.
C26_FinalSortIdempotent ==
    \A r \in Runs :
        vp[r].pc = "resolved" =>
            /\ vp[r].result = SortByConfidenceDesc(vp[r].extractedFrames)
            /\ SortByConfidenceDesc(vp[r].result) = vp[r].result

\* four frames returned in an order other than that of extraction, the first
\* two with one confidence and the last two with another
C26_Witness ==
    \E r \in Runs :
        /\ vp[r].pc = "resolved"
        /\ Len(vp[r].result) = 4
        /\ vp[r].result # vp[r].extractedFrames
        /\ vp[r].result[1].confidence = vp[r].result[2].confidence
        /\ vp[r].result[3].confidence = vp[r].result[4].confidence
        /\ vp[r].result[1].timestamp < vp[r].result[2].timestamp
        /\ SortByConfidenceDesc(vp[r].result) = vp[r].result

\* the highest happy score among faces, 0 when there is none
MaxHappy(faces) ==
    IF faces = <<>> THEN 0
    ELSE LET i == CHOOSE i \in 1..Len(faces) :
                      \A j \in 1..Len(faces) : faces[j].happy <= faces[i].happy
         IN  faces[i].happy

\* the frame that stands for the burst after a sample was scored: the best
\* frame of the burst still open, or the frame just extracted from the burst
\* the sample ended
BurstFrameAfter(before, after) ==
    IF after.currentSmileBurst # NullBurst THEN after.currentSmileBurst.bestFrame
    ELSE IF Len(after.extractedFrames) > Len(before.extractedFrames)
    THEN after.extractedFrames[Len(after.extractedFrames)]
    ELSE NullFrame

\* a sample with smiling faces scored outside a cooldown
SampleJoinsBurst(before, after) ==
    /\ before.pc = "awaitDetect"
    /\ after.pc = "awaitFrame"
    /\ ~before.smileCooldownActive
    /\ after.detections # <<>>

\* C27 as stated: after a sample joins a burst, the burst's frame is at least
\* as confident as every smiling face of that sample, and maxConfidence is the
\* confidence of bestFrame.
C27_BestOfAllDetections_Original ==
    [][\A r \in Runs :
          /\ vp'[r].currentSmileBurst # NullBurst
                => vp'[r].currentSmileBurst.maxConfidence
                       = vp'[r].currentSmileBurst.bestFrame.confidence
          /\ (SampleJoinsBurst(vp[r], vp'[r]) /\ BurstFrameAfter(vp[r], vp'[r]) # NullFrame)
                => BurstFrameAfter(vp[r], vp'[r]).confidence >= MaxHappy(vp'[r].detections)]_vars

\* C27 amended: only the first smiling face of a sample is considered. After a
\* sample joins a burst, the burst's confidence is the higher of what it was
\* and the happy score of the sample's first smiling face (that score alone
\* when the sample starts the burst); the frame changes only for a strictly
\* higher score; maxConfidence is the confidence of bestFrame.
C27_BestOfFirstDetections ==
    [][\A r \in Runs :
          /\ vp'[r].currentSmileBurst # NullBurst
                => vp'[r].currentSmileBurst.maxConfidence
                       = vp'[r].currentSmileBurst.bestFrame.confidence
          /\ SampleJoinsBurst(vp[r], vp'[r])
                => LET first == vp'[r].detections[1].happy
                       was == vp[r].currentSmileBurst
                       frame == BurstFrameAfter(vp[r], vp'[r])
                   IN  /\ frame # NullFrame =>
                            frame.confidence =
                                IF was # NullBurst /\ was.maxConfidence >= first
                                THEN was.maxConfidence ELSE first
                       /\ (frame # NullFrame /\ was # NullBurst /\ was.maxConfidence >= first)
                            => frame = was.bestFrame]_vars

\* a sample with two smiling faces, the second the more confident, left the
\* burst with the first
C27_Witness ==
    \E r \in Runs :
        /\ vp[r].pc = "awaitFrame"
        /\ Len(vp[r].detections) = 2
        /\ vp[r].detections[1].happy < vp[r].detections[2].happy
        /\ vp[r].currentSmileBurst # NullBurst
        /\ vp[r].currentSmileBurst.lastDetectionTime = video.currentTime
        /\ vp[r].currentSmileBurst.maxConfidence = vp[r].detections[1].happy

\* C28: every frame a run returns carries the image captured when its
\* detection was accepted.
C28_CapturedOnAcceptance ==
    \A r \in Runs :
        vp[r].pc = "resolved" =>
            \A i \in 1..Len(vp[r].result) : vp[r].result[i].dataUrl # "undefined"

\* the landmarks of a detected face as analyzeSmileGeometry measures them: the
\* mouth as detected, eyes and brows in place
HybridLandmarksOf(face) ==
    [WideOpenSmile EXCEPT !.mouthWidth = face.mouthWidth, !.mouthHeight = face.mouthHeight]

\* lines 92-93 of faceDetection.ts: the combiner's result for a detected face
CombinedConfidenceOf(face) ==
    LET geometricAnalysis == analyzeSmileGeometry(HybridLandmarksOf(face))
    IN  IF geometricAnalysis.throws # "none" THEN geometricAnalysis
        ELSE calculateCombinedConfidence(face.happy, geometricAnalysis)

\* C29: the confidence of every returned frame is the combiner's final
\* confidence for the frame's detection.
C29_ConfidenceIsCombined ==
    \A r \in Runs :
        vp[r].pc = "resolved" =>
            \A i \in 1..Len(vp[r].result) :
                LET combined == CombinedConfidenceOf(vp[r].result[i].detection)
                IN  /\ combined.throws = "none"
                    /\ vp[r].result[i].confidence * 100 = combined.confidence

\* C30: when the models have been loaded, loading was started once: a call of
\* initialize() after a successful one, or overlapping one in progress,
\* starts no other load.
C30_LoadStartedOnce ==
    hybrid.modelsLoaded => hybrid.loadsStarted <= 1

\* a step of run r that pushes a frame to extractedFrames
PushesFrame(before, after) ==
    Len(after.extractedFrames) > Len(before.extractedFrames)

\* how long the smile of the burst a step finalizes was detected for: from the
\* burst's start to its last detection, the sample scored in the step counted
\* when it has a smiling face
DetectedFor(before, after, videoTimeMs) ==
    (IF after.detections # <<>> THEN videoTimeMs
     ELSE before.currentSmileBurst.lastDetectionTime)
        - before.currentSmileBurst.startTime

\* C31: a burst whose smile was detected for less than MIN_SMILE_DURATION_MS
\* (one seen at a single sample, say) is never pushed to the extracted
\* frames, in the loop or after it.
C31_MinSmileDuration ==
    [][\A r \in Runs :
          (PushesFrame(vp[r], vp'[r]) /\ vp[r].currentSmileBurst # NullBurst)
              => DetectedFor(vp[r], vp'[r], video.currentTime) >= MIN_SMILE_DURATION_MS]_vars

\* a step in which the scan loop of run r ends and the run resolves
ScanEnds(before, after) == before.pc # "resolved" /\ after.pc = "resolved"

\* C32 as stated: whenever the scan loop ends with a burst still open, the
\* burst's best frame is pushed to the output.
C32_PendingBurstKept_Original ==
    [][\A r \in Runs :
          (ScanEnds(vp[r], vp'[r]) /\ vp[r].currentSmileBurst # NullBurst)
              => vp'[r].extractedFrames
                     = Append(vp[r].extractedFrames, vp[r].currentSmileBurst.bestFrame)]_vars

\* C32 amended: when the scan loop ends with a burst still open, the burst's
\* best frame is pushed exactly when, at the video's position, the last
\* detection is at most SMILE_BUFFER_DURATION_MS old and the burst started at
\* least MIN_SMILE_DURATION_MS ago; otherwise nothing is pushed.
C32_PendingBurstKept ==
    [][\A r \in Runs :
          (ScanEnds(vp[r], vp'[r]) /\ vp[r].currentSmileBurst # NullBurst)
              => LET burst == vp[r].currentSmileBurst
                     kept == /\ video.currentTime - burst.lastDetectionTime
                                    <= SMILE_BUFFER_DURATION_MS
                             /\ video.currentTime - burst.startTime
                                    >= MIN_SMILE_DURATION_MS
                 IN  vp'[r].extractedFrames =
                         IF kept THEN Append(vp[r].extractedFrames, burst.bestFrame)
                         ELSE vp[r].extractedFrames]_vars

\* a full scan whose last sample started a burst returned nothing
C32_Witness ==
    \E r \in Runs :
        /\ FullScan(r)
        /\ vp[r].currentSmileBurst # NullBurst
        /\ vp[r].currentSmileBurst.startTime = file.duration - PROCESSING_FRAME_STEP_MS
        /\ vp[r].result = <<>>

C34_SaveFrameDrawsDetectedInstant ==
    app.saved # NullSave => app.saved.drawn = app.saved.timestamp

\* C35: while the cooldown is active there is no open burst, and a sample
\* scored during the cooldown opens no burst, changes none and adds no frame.
C35_CooldownExcludesBurst ==
    [][\A r \in Runs :
          /\ vp'[r].smileCooldownActive => vp'[r].currentSmileBurst = NullBurst
          /\ (vp[r].pc = "awaitDetect" /\ vp'[r].pc = "awaitFrame"
                /\ vp[r].smileCooldownActive)
                => /\ vp'[r].currentSmileBurst = NullBurst
                   /\ vp'[r].extractedFrames = vp[r].extractedFrames]_vars

\* a sample with a smiling face scored during the cooldown
C35_Witness ==
    \E r \in Runs :
        /\ vp[r].pc = "awaitFrame"
        /\ vp[r].smileCooldownActive
        /\ vp[r].detections # <<>>
        /\ vp[r].currentSmileBurst = NullBurst
        /\ Len(vp[r].extractedFrames) = 1

\* C36: whenever the cooldown is active its timer is pending.
C36_ActiveCooldownHasTimer ==
    \A r \in Runs : vp[r].smileCooldownActive => vp[r].cooldownTimeoutId # "null"

\* C37: the smilingFaces last reported is the number of frames pushed so far,
\* and when the call resolves it is the length of the collection returned.
C37_SmileCounterMatchesFrames ==
    \A r \in Runs :
        /\ (Active(r) /\ vp[r].pc # "awaitMetadata")
              => /\ stats.smilingFaces = Len(vp[r].extractedFrames)
                 /\ vp[r].smilingFacesCount = Len(vp[r].extractedFrames)
        /\ vp[r].pc = "resolved"
              => /\ stats.smilingFaces = Len(vp[r].result)
                 /\ Len(vp[r].result) = Len(vp[r].extractedFrames)

\* a run that pushed one frame in its loop and one after it
C37_Witness ==
    \E r \in Runs :
        /\ vp[r].pc = "resolved"
        /\ stats.smilingFaces = 2
        /\ vp[r].currentSmileBurst # NullBurst
        /\ vp[r].result[1].timestamp = vp[r].currentSmileBurst.bestFrame.timestamp

\* C38: the processedFrames reported never exceeds the totalFrames reported,
\* whatever the duration of the video.
C38_ProgressWithinEstimate ==
    \A r \in Runs :
        vp[r].pc \notin {"idle", "awaitMetadata"}
            => stats.processedFrames <= stats.totalFrames

\* C39: a burst left open by the scoring of a sample started at most
\* 2 x SMILE_BUFFER_DURATION_MS before that sample, so that it is finalized
\* no later than one step after that; the step that finalizes a burst starts
\* the cooldown.
C39_BoundedBurstLifetime ==
    [][\A r \in Runs :
          (vp[r].pc = "awaitDetect" /\ vp'[r].pc = "awaitFrame")
              => /\ vp'[r].currentSmileBurst # NullBurst
                       => video.currentTime - vp'[r].currentSmileBurst.startTime
                              <= 2 * SMILE_BUFFER_DURATION_MS
                 /\ (vp[r].currentSmileBurst # NullBurst
                        /\ vp'[r].currentSmileBurst = NullBurst)
                       => /\ vp'[r].smileCooldownActive
                          /\ vp'[r].cooldownTimeoutId # "null"]_vars

\* a burst still open 2 x SMILE_BUFFER_DURATION_MS after it started
C39_Witness ==
    \E r \in Runs :
        /\ vp[r].pc = "awaitFrame"
        /\ vp[r].currentSmileBurst # NullBurst
        /\ vp[r].currentTime - PROCESSING_FRAME_STEP_MS
               - vp[r].currentSmileBurst.startTime = 2 * SMILE_BUFFER_DURATION_MS
        /\ vp[r].currentSmileBurst.lastDetectionTime
               - vp[r].currentSmileBurst.startTime = SMILE_BUFFER_DURATION_MS

\* the service after a failed initialize()
FailedClosed(h) == h.initialized /\ h.detectionMethod = "fallback"

\* C40: once initialize() has failed the service stays failed:
\* isUsingRealDetection() is false from then on, no load is started again,
\* and a detectSmileInFrame call made from then on throws the not-available
\* error.
C40_FailedInitializationSticky ==
    [][FailedClosed(hybrid)
          => /\ FailedClosed(hybrid')
             /\ ~isUsingRealDetection(hybrid')
             /\ hybrid'.loadsStarted = hybrid.loadsStarted
             /\ (hybrid.init["lazy"] # "loading" /\ hybrid.call.fn = "none"
                   /\ hybrid'.call.fn = "detectSmileInFrame")
                   => hybrid'.call.outcome.throws = "Face-API.js detection not available"]_vars

====
